---- MODULE Spec2Model ----
(***************************************************************************)
(* Model of sunpy/net/hek/hek.py: HEKClient.search, HEKClient._download,   *)
(* HEKClient._merge and _freeze.                                           *)
(*                                                                         *)
(* One search call is a sequence of blocking steps.  For every page of     *)
(* every sub-query the downloader first opens the URL (Urlopen) and then   *)
(* reads, decodes and processes the response (Read).  The server, the      *)
(* network and the attribute walker are the environment: their outputs are *)
(* drawn from small sets.                                                  *)
(***************************************************************************)
EXTENDS Integers, Sequences, FiniteSets, TLC

VARIABLES
    default,       \* HEKClient.default, the class-level parameter dict
    srv,           \* which server answers: "free" or a deterministic one
    calls,         \* number of search calls started
    query,         \* output of attrs.walker.create for the running call
    ndata,         \* search: list of per-sub-query parameter dicts
    idx,           \* search: position of the generator over ndata
    page,          \* _download: page counter
    results,       \* _download: accumulated records
    openFds,       \* number of response handles open
    pc,            \* "idle", "open", "read", "done", "error"
    err,           \* class of the exception that ended the call
    cause,         \* __cause__ of that exception
    raisedIn,      \* function whose code raised it
    requests,      \* log of the requests sent by the running call
    outcomes,      \* log of what came back for each request
    tables,        \* tables returned by _download in the running call
    seen,          \* unique(): the set `items`
    merged,        \* unique(): elements yielded so far
    ret,           \* value returned by search
    hist           \* <<query, requests>> of the first call of each query

vars == <<default, srv, calls, query, ndata, idx, page, results, openFds, pc,
          err, cause, raisedIn, requests, outcomes, tables, seen, merged,
          ret, hist>>

(***************************************************************************)
(* Bounds.                                                                 *)
(***************************************************************************)
MaxPage == 2      \* pages the model follows per sub-query
MaxSub == 2       \* parameter sets a query expands to
MaxCalls == 3     \* consecutive search calls

(***************************************************************************)
(* JSON values and Python objects, tagged with their type.                 *)
(***************************************************************************)
Str(s) == [t |-> "str", v |-> s]
List(s) == [t |-> "list", v |-> s]
Dict(items) == [t |-> "dict", v |-> items]
Tuple(s) == [t |-> "tuple", v |-> s]
RowObj(r) == [t |-> "row", v |-> r]
None == [t |-> "none", v |-> "None"]

\* Two event records with different key sets; the second nests a list.
RA == Dict(<< <<"kb_archivid", Str("ivo://e1")>> >>)
RB == Dict(<< <<"kb_archivid", Str("ivo://e2")>>,
              <<"refs", List(<<Str("r1"), Str("r2")>>)>> >>)

RECURSIVE SeqsUpTo(_, _)
SeqsUpTo(S, n) ==
    IF n = 0 THEN {<<>>}
    ELSE LET shorter == SeqsUpTo(S, n - 1)
         IN  shorter \cup {Append(s, e) : s \in shorter, e \in S}

Keys(d) == {d.v[i][1] : i \in DOMAIN d.v}
DictGet(d, k, dflt) ==
    IF k \in Keys(d)
    THEN (d.v[CHOOSE i \in DOMAIN d.v : d.v[i][1] = k])[2]
    ELSE dflt

(***************************************************************************)
(* _freeze, lines 26-32.                                                   *)
(***************************************************************************)
RECURSIVE _freeze(_)
_freeze(obj) ==
    IF obj.t = "dict"
    THEN Tuple([i \in DOMAIN obj.v |->
                   Tuple(<<Str(obj.v[i][1]), _freeze(obj.v[i][2])>>)])
    ELSE IF obj.t = "list"
    THEN Tuple([i \in DOMAIN obj.v |-> _freeze(obj.v[i])])
    ELSE obj

\* hash(x) succeeds: str, None and tuples of hashables do; list and dict do
\* not, and neither does a table row (astropy's Row defines __eq__ without
\* __hash__).
RECURSIVE Hashable(_)
Hashable(x) ==
    IF x.t \in {"str", "none"} THEN TRUE
    ELSE IF x.t = "tuple" THEN \A i \in DOMAIN x.v : Hashable(x.v[i])
    ELSE FALSE

(***************************************************************************)
(* Parameter dictionaries, lines 45-52 and 110-113.                        *)
(***************************************************************************)
Update(d, e) ==
    [k \in DOMAIN d \cup DOMAIN e |-> IF k \in DOMAIN e THEN e[k] ELSE d[k]]

\* attrs.walker.apply(attrs.SpatialRegion(), {}, default): the full disk.
SpatialRegionDefault ==
    [x1 |-> "-5000", y1 |-> "-5000", x2 |-> "5000", y2 |-> "5000",
     event_coordsys |-> "helioprojective"]

DefaultDict ==
    Update([cosec |-> "2", cmd |-> "search", type |-> "column",
            event_type |-> "**"],
           SpatialRegionDefault)

\* Parameter sets the attribute walker can produce for a query.
E1 == [event_type |-> "FL", event_starttime |-> "2011-08-09T07:23:56"]
E2 == [event_type |-> "AR", param0 |-> "FRM_Name", op0 |-> "=",
       value0 |-> "SWPC"]
Elems == {E1, E2}
Queries == SeqsUpTo(Elems, MaxSub) \ {<<>>}

NewParamsDefaultWins(dflt, elem) == Update(elem, dflt)

\* new = self.default.copy(); new.update(elem)
NewParams(dflt, elem) == Update(dflt, elem)

\* data['page'] = page
SetPage(data, p) == Update(data, [page |-> p])

(***************************************************************************)
(* Tables, lines 75-78.                                                    *)
(***************************************************************************)
EmptyTable == [cols |-> {}, rows |-> <<>>]
NoTable == [cols |-> {"<no table>"}, rows |-> <<>>]

\* sunpy.util.dict_keys_same: every dict gets every key, None where absent.
dict_keys_same(rs) ==
    LET allKeys == UNION {Keys(rs[i]) : i \in DOMAIN rs}
    IN  [i \in DOMAIN rs |-> [k \in allKeys |-> DictGet(rs[i], k, None)]]

\* astropy.table.Table(rows) and HEKTable(rows).
Table(rows) ==
    [cols |-> UNION {DOMAIN rows[i] : i \in DOMAIN rows}, rows |-> rows]

MakeTableOffByOne(rs) ==
    IF Len(rs) > 1 THEN Table(dict_keys_same(rs)) ELSE EmptyTable

MakeTable(rs) ==
    IF Len(rs) > 0 THEN Table(dict_keys_same(rs)) ELSE EmptyTable

\* Iterating a table yields its Row objects.
TableIter(tbl) == [i \in DOMAIN tbl.rows |-> RowObj(tbl.rows[i])]

\* HEKTable(list of Row objects)
HEKTableOfRows(rowObjs) == Table([i \in DOMAIN rowObjs |-> rowObjs[i].v])

(***************************************************************************)
(* _merge, lines 120-122: unique(chain.from_iterable(responses), _freeze). *)
(* unique keeps the elements whose key is not yet in the set `items`;      *)
(* looking the key up hashes it.                                           *)
(***************************************************************************)
RECURSIVE unique(_, _, _)
unique(items, out, elems) ==
    IF elems = <<>> THEN [ok |-> TRUE, items |-> items, out |-> out]
    ELSE LET x == _freeze(Head(elems))
         IN  IF ~Hashable(x)
             THEN [ok |-> FALSE, items |-> items, out |-> out]
             ELSE IF x \notin items
             THEN unique(items \cup {x}, Append(out, Head(elems)), Tail(elems))
             ELSE unique(items, out, Tail(elems))

(***************************************************************************)
(* The environment: what a request can come back with.                     *)
(*   open_fail  urllib.request.urlopen raises (URLError)                   *)
(*   read_fail  fd.read() raises                                           *)
(*   bad_json   json.loads raises; codecs.decode with errors='replace'     *)
(*              never raises, undecodable bytes end up here or in "ok"     *)
(*   ok         a JSON object, with or without 'result' and 'overmax'      *)
(***************************************************************************)
\* The 'result' lists a page can carry: none, one or two records, the same
\* record twice, records with different key sets.
PageLists == {<<>>, <<RA>>, <<RA, RA>>, <<RB, RA>>}

NoPayload == [keys |-> {}, result |-> <<>>, overmax |-> FALSE]
Payload(rs, more) ==
    [keys |-> {"result", "overmax"}, result |-> rs, overmax |-> more]

\* JSON objects a response can decode to: complete ones, and ones that lack
\* 'overmax', 'result' or both.
Payloads ==
    {Payload(rs, more) : rs \in PageLists, more \in BOOLEAN} \cup
    {[keys |-> {"result"}, result |-> <<RA>>, overmax |-> FALSE],
     [keys |-> {"overmax"}, result |-> <<>>, overmax |-> FALSE],
     NoPayload}

Failure(kind) == [kind |-> kind, payload |-> NoPayload]
Ok(p) == [kind |-> "ok", payload |-> p]

ReadOutcomes ==
    {Failure("read_fail"), Failure("bad_json")} \cup {Ok(p) : p \in Payloads}

\* A server that answers a given request the same way every time: flares
\* come in two pages, active regions in one empty page, and a request that
\* names no event type of the two is refused.
ServerIds == {"paged"}
ServerResp(s, params) ==
    IF params.event_type = "FL"
    THEN IF params.page = 1 THEN Ok(Payload(<<RA>>, TRUE))
         ELSE Ok(Payload(<<RB, RA>>, FALSE))
    ELSE IF params.event_type = "AR" THEN Ok(Payload(<<>>, FALSE))
    ELSE Failure("open_fail")

IsFree == srv = "free"

(***************************************************************************)
(* search, lines 106-118, up to its first blocking call.                   *)
(***************************************************************************)
Init ==
    /\ default = DefaultDict
    /\ srv \in ServerIds \cup {"free"}
    /\ calls = 0
    /\ query = <<>>
    /\ ndata = <<>>
    /\ idx = 0
    /\ page = 0
    /\ results = <<>>
    /\ openFds = 0
    /\ pc = "idle"
    /\ err = "none"
    /\ cause = "none"
    /\ raisedIn = "none"
    /\ requests = <<>>
    /\ outcomes = <<>>
    /\ tables = <<>>
    /\ seen = {}
    /\ merged = <<>>
    /\ ret = NoTable
    /\ hist = {}

Search(q) ==
    /\ \/ pc = "idle"
       \/ pc \in {"done", "error"} /\ ~IsFree
    /\ calls < MaxCalls
    /\ calls' = calls + 1
    /\ hist' = IF pc = "idle" \/ \E h \in hist : h[1] = query THEN hist
               ELSE hist \cup {<<query, requests>>}
    /\ query' = q
    /\ ndata' = [i \in DOMAIN q |-> NewParams(default, q[i])]
    /\ idx' = 1
    /\ page' = 1
    /\ results' = <<>>
    /\ pc' = "open"
    /\ err' = "none"
    /\ cause' = "none"
    /\ raisedIn' = "none"
    /\ requests' = <<>>
    /\ outcomes' = <<>>
    /\ tables' = <<>>
    /\ seen' = {}
    /\ merged' = <<>>
    /\ ret' = NoTable
    /\ UNCHANGED <<default, srv, openFds>>

(***************************************************************************)
(* _download, lines 57-80.                                                 *)
(***************************************************************************)
\* The locals and results that a step of the call can change.
Cur ==
    [idx |-> idx, page |-> page, results |-> results, pc |-> pc, err |-> err,
     cause |-> cause, raisedIn |-> raisedIn, tables |-> tables, seen |-> seen,
     merged |-> merged, ret |-> ret]

\* An exception of class e leaves the function `where` and ends the call.
Raised(st, e, c, where) ==
    [st EXCEPT !.pc = "error", !.err = e, !.cause = c, !.raisedIn = where]

CauseOf(o) == IF o.kind = "read_fail" THEN "OSError" ELSE "JSONDecodeError"

ExceptClauseRetries(st, o) == [st EXCEPT !.pc = "open"]

\* except Exception as e: raise IOError(...) from e
ExceptClause(st, o) == Raised(st, "IOError", CauseOf(o), "_download")

FdsAfterReadNoFinally(n, o) == IF o.kind = "ok" THEN n - 1 ELSE n

\* finally: fd.close(), whether or not the try block raised
FdsAfterRead(n, o) == n - 1

ExtendInFront(rs, new) == new \o rs

\* results.extend(result['result'])
Extend(rs, new) == rs \o new

LastPageAlways(p) == TRUE

LastPageInverted(p) == p.overmax

\* if not result['overmax']
LastPage(p) == ~p.overmax

NextPageSkips(p) == p + 2

\* page += 1
NextPage(p) == p + 1

\* search, lines 115-118: what happens to the table _download returns.  With
\* one parameter set it is the result.  With several, the generator handed to
\* _merge is consumed lazily: the rows of this table go through unique()
\* before the next sub-query is downloaded.
DownloadReturns(st, tbl, n) ==
    LET st1 == [st EXCEPT !.tables = Append(@, tbl)]
        m == unique(st.seen, st.merged, TableIter(tbl))
    IN  IF n = 1 THEN [st1 EXCEPT !.ret = tbl, !.pc = "done"]
        ELSE IF ~m.ok THEN Raised(st1, "TypeError", "none", "_merge")
        ELSE IF st.idx < n
        THEN [st1 EXCEPT !.seen = m.items, !.merged = m.out,
                         !.idx = st.idx + 1, !.page = 1, !.results = <<>>,
                         !.pc = "open"]
        ELSE [st1 EXCEPT !.seen = m.items, !.merged = m.out,
                         !.ret = HEKTableOfRows(m.out), !.pc = "done"]

\* Lines 72-80, after the response was decoded.
Process(st, p, n) ==
    IF "result" \notin p.keys THEN Raised(st, "KeyError", "none", "_download")
    ELSE LET st1 == [st EXCEPT !.results = Extend(st.results, p.result)]
         IN  IF "overmax" \notin p.keys
             THEN Raised(st1, "KeyError", "none", "_download")
             ELSE IF LastPage(p)
             THEN DownloadReturns(st1, MakeTable(st1.results), n)
             ELSE [st1 EXCEPT !.page = NextPage(st.page), !.pc = "open"]

\* Lines 63-64: data['page'] = page; fd = urllib.request.urlopen(...)
Urlopen ==
    /\ pc = "open"
    /\ page <= MaxPage
    /\ ndata' = [ndata EXCEPT ![idx] = SetPage(@, page)]
    /\ requests' = Append(requests, [sub |-> idx, params |-> ndata'[idx]])
    /\ \E opened \in BOOLEAN :
        /\ IsFree \/ opened = (ServerResp(srv, ndata'[idx]).kind # "open_fail")
        /\ IF opened
           THEN /\ openFds' = openFds + 1
                /\ pc' = "read"
                /\ UNCHANGED <<err, cause, raisedIn, outcomes>>
           ELSE /\ pc' = "error"
                /\ err' = "URLError"
                /\ cause' = "none"
                /\ raisedIn' = "_download"
                /\ outcomes' = Append(outcomes,
                       [sub |-> idx, page |-> page, kind |-> "open_fail",
                        payload |-> NoPayload])
                /\ UNCHANGED openFds
    /\ UNCHANGED <<default, srv, calls, query, idx, page, results, tables,
                   seen, merged, ret, hist>>

\* Lines 65-80: read, decode, close, then process the page.
Read ==
    /\ pc = "read"
    /\ \E o \in ReadOutcomes :
        /\ IsFree \/ o = ServerResp(srv, ndata[idx])
        /\ outcomes' = Append(outcomes,
               [sub |-> idx, page |-> page, kind |-> o.kind,
                payload |-> o.payload])
        /\ openFds' = FdsAfterRead(openFds, o)
        /\ LET nx == IF o.kind = "ok" THEN Process(Cur, o.payload, Len(ndata))
                     ELSE ExceptClause(Cur, o)
           IN  /\ idx' = nx.idx
               /\ page' = nx.page
               /\ results' = nx.results
               /\ pc' = nx.pc
               /\ err' = nx.err
               /\ cause' = nx.cause
               /\ raisedIn' = nx.raisedIn
               /\ tables' = nx.tables
               /\ seen' = nx.seen
               /\ merged' = nx.merged
               /\ ret' = nx.ret
    /\ UNCHANGED <<default, srv, calls, query, ndata, requests, hist>>

Next ==
    \/ \E q \in Queries : Search(q)
    \/ Urlopen
    \/ Read

Spec == Init /\ [][Next]_vars

(***************************************************************************)
(* Reading the logs.                                                       *)
(***************************************************************************)
Subs == 1..Len(ndata)
ReqsOf(i) == SelectSeq(requests, LAMBDA r : r.sub = i)
OutsOf(i) == SelectSeq(outcomes, LAMBDA o : o.sub = i)

RECURSIVE Flatten(_)
Flatten(ss) == IF ss = <<>> THEN <<>> ELSE Head(ss) \o Flatten(Tail(ss))

\* Records received for sub-query i, in the order they arrived.
FetchedOf(i) == Flatten([k \in DOMAIN OutsOf(i) |-> OutsOf(i)[k].payload.result])

IsComplete(o) == o.kind = "ok" /\ o.payload.keys = {"result", "overmax"}
IsFinal(o) == IsComplete(o) /\ ~o.payload.overmax
IsFailure(o) == ~IsComplete(o)

\* Row j of the table is record j, with None under the keys it lacks.
RowIsRecord(row, rec) ==
    /\ Keys(rec) \subseteq DOMAIN row
    /\ \A k \in DOMAIN row :
          row[k] = IF k \in Keys(rec) THEN DictGet(rec, k, None) ELSE None

(***************************************************************************)
(* C1: for one parameter set _download requests the pages 1, 2, 3, ... in  *)
(* order, none skipped or repeated, and the table it returns holds the     *)
(* records of all pages fetched, in page order and in the order they had   *)
(* inside each page.                                                       *)
(***************************************************************************)
C1_PagesInOrderAndConcatenated ==
    /\ \A i \in Subs : \A k \in DOMAIN ReqsOf(i) : ReqsOf(i)[k].params.page = k
    /\ \A i \in DOMAIN tables :
          /\ Len(tables[i].rows) = Len(FetchedOf(i))
          /\ \A j \in DOMAIN tables[i].rows :
                RowIsRecord(tables[i].rows[j], FetchedOf(i)[j])

C1_Witness ==
    /\ Len(tables) >= 1
    /\ Len(OutsOf(1)) = 2
    /\ OutsOf(1)[1].payload.result = <<RA>>
    /\ OutsOf(1)[2].payload.result = <<RB, RA>>

(***************************************************************************)
(* C2: every failure inside _download, opening the URL included, leaves    *)
(* _download as the IOError with the original failure as its cause.        *)
(***************************************************************************)
C2_AllFailuresWrapped ==
    (pc = "error" /\ raisedIn = "_download") =>
        (err = "IOError" /\ cause # "none")

(***************************************************************************)
(* C3: the table search returns has no two identical records.              *)
(***************************************************************************)
C3_NoDuplicates ==
    pc = "done" =>
        \A i, j \in DOMAIN ret.rows : i # j => ret.rows[i] # ret.rows[j]

(***************************************************************************)
(* C4: no retry and no partial result: no (sub-query, page) is requested   *)
(* twice, and a failed fetch is the last thing the call did: the call is   *)
(* in error, nothing was returned and no request followed.                 *)
(***************************************************************************)
C4_NoRetryNoPartialResult ==
    /\ \A j, k \in DOMAIN requests :
          (j # k /\ requests[j].sub = requests[k].sub) =>
              requests[j].params.page # requests[k].params.page
    /\ \A k \in DOMAIN outcomes :
          IsFailure(outcomes[k]) =>
              /\ k = Len(outcomes)
              /\ k = Len(requests)
              /\ pc = "error"
              /\ ret = NoTable

C4_Witness ==
    /\ pc = "error"
    /\ raisedIn = "_download"
    /\ Len(outcomes) = 2
    /\ outcomes[1].payload.result # <<>>
    /\ outcomes[2].kind = "read_fail"

(***************************************************************************)
(* C5: requests are sequential: at most one is outstanding, the sub-query  *)
(* index never goes back, and the first page of sub-query i+1 is requested *)
(* only after sub-query i received its final page (overmax false); each    *)
(* request carries the parameters of the sub-query at that position of the *)
(* walker's output.                                                        *)
(***************************************************************************)
C5_Sequential ==
    /\ Len(requests) - Len(outcomes) = IF pc = "read" THEN 1 ELSE 0
    /\ requests # <<>> => requests[1].sub = 1
    /\ \A k \in DOMAIN requests :
          /\ \A key \in DOMAIN query[requests[k].sub] :
                requests[k].params[key] = query[requests[k].sub][key]
          /\ k > 1 =>
                \/ requests[k].sub = requests[k - 1].sub
                \/ /\ requests[k].sub = requests[k - 1].sub + 1
                   /\ requests[k].params.page = 1
                   /\ outcomes[k - 1].sub = requests[k - 1].sub
                   /\ IsFinal(outcomes[k - 1])

C5_Witness ==
    /\ Len(requests) >= 3
    /\ requests[2].sub = 1
    /\ requests[3].sub = 2
    /\ query[1] # query[2]

(***************************************************************************)
(* C6: _download stops at the first page whose overmax flag is false: it   *)
(* returns in the step that processes that page N, after N requests, and   *)
(* never asks for page N+1; it returns at no other page, and after a page  *)
(* with the flag set the loop moves on to the next page whatever the page  *)
(* number.                                                                 *)
(***************************************************************************)
C6_StopsAtFirstClearedFlag ==
    \A i \in Subs :
        LET outs == OutsOf(i)
        IN  /\ \A k \in DOMAIN outs :
                  IsFinal(outs[k]) =>
                      /\ k = Len(outs)
                      /\ Len(ReqsOf(i)) = k
                      /\ i \in DOMAIN tables
                      /\ idx # i \/ pc \in {"done", "error"}
            /\ i \in DOMAIN tables => outs # <<>> /\ IsFinal(outs[Len(outs)])
            /\ (outs # <<>> /\ IsComplete(outs[Len(outs)])
                  /\ outs[Len(outs)].payload.overmax) =>
                      /\ idx = i
                      /\ pc \in {"open", "read"}
                      /\ page = outs[Len(outs)].page + 1
                      /\ Len(ReqsOf(i)) \in {page - 1, page}

C6_Witness ==
    /\ Len(tables) = 1
    /\ Len(OutsOf(1)) = 2
    /\ Len(ReqsOf(1)) = 2
    /\ OutsOf(1)[1].payload.overmax
    /\ pc = "done"

(***************************************************************************)
(* C7: no state is shared across calls: the class-level default dict is    *)
(* never modified, every request carries the defaults overridden by its    *)
(* sub-query's parameters plus the page, and against a server that answers *)
(* a request the same way every time, two calls with the same query send   *)
(* the same requests whatever ran in between.                              *)
(***************************************************************************)
C7_NoSharedState ==
    /\ default = DefaultDict
    /\ \A k \in DOMAIN requests :
          LET params == requests[k].params
              elem == query[requests[k].sub]
          IN  /\ DOMAIN params = DOMAIN DefaultDict \cup DOMAIN elem \cup {"page"}
              /\ \A key \in DOMAIN params \ {"page"} :
                    params[key] = IF key \in DOMAIN elem THEN elem[key]
                                  ELSE DefaultDict[key]
    /\ \A i \in DOMAIN ndata : i > idx => "page" \notin DOMAIN ndata[i]
    /\ \A g, h \in hist : g[1] = h[1] => g[2] = h[2]
    /\ pc \in {"done", "error"} =>
          \A h \in hist : h[1] = query => h[2] = requests

C7_Witness ==
    /\ pc = "done"
    /\ calls = 3
    /\ Len(requests) = 2
    /\ <<query, requests>> \in hist
    /\ \E h \in hist : h[1] # query /\ h[2] # <<>>

(***************************************************************************)
(* C8: when _download returns, the table is empty and has no columns if    *)
(* the pages carried no record; otherwise it has one row per record        *)
(* received, duplicates included, and its columns are the union of the     *)
(* keys of the records received.                                           *)
(***************************************************************************)
RECURSIVE SumLen(_)
SumLen(ss) == IF ss = <<>> THEN 0 ELSE Len(Head(ss)) + SumLen(Tail(ss))

PageResults(i) == [k \in DOMAIN OutsOf(i) |-> OutsOf(i)[k].payload.result]

C8_TableShape ==
    \A i \in DOMAIN tables :
        LET n == SumLen(PageResults(i))
            received == UNION {{PageResults(i)[k][j] :
                                   j \in DOMAIN PageResults(i)[k]} :
                               k \in DOMAIN PageResults(i)}
        IN  IF n = 0 THEN tables[i] = EmptyTable
            ELSE /\ Len(tables[i].rows) = n
                 /\ tables[i].cols = UNION {Keys(r) : r \in received}
                 /\ \A j \in DOMAIN tables[i].rows :
                       DOMAIN tables[i].rows[j] = tables[i].cols

C8_Witness ==
    /\ Len(tables) = 1
    /\ Len(tables[1].rows) = 3
    /\ tables[1].cols = {"kb_archivid", "refs"}
    /\ tables[1].rows[1] = tables[1].rows[3]
    /\ tables[1].rows[1]["refs"] = None

(***************************************************************************)
(* C9: a response handle is open only between urlopen and the end of the   *)
(* read of that page: never more than one, and none while the next page is *)
(* about to be requested or after the call ended, failed reads included.   *)
(***************************************************************************)
C9_HandlesClosed ==
    /\ openFds \in {0, 1}
    /\ openFds = 1 <=> pc = "read"

C9_Witness ==
    /\ pc = "error"
    /\ err = "IOError"
    /\ openFds = 0
    /\ Len(requests) = 2

(***************************************************************************)
(* C10: with several parameter sets, the merged result holds every         *)
(* distinct record returned by the sub-queries downloaded so far exactly   *)
(* once, at the position of its first occurrence.                          *)
(***************************************************************************)
RECURSIVE FirstOccurrences(_, _)
FirstOccurrences(rows, acc) ==
    IF rows = <<>> THEN acc
    ELSE FirstOccurrences(Tail(rows),
             IF \E i \in DOMAIN acc : acc[i] = Head(rows) THEN acc
             ELSE Append(acc, Head(rows)))

C10_MergeKeepsFirstOccurrences ==
    Len(ndata) > 1 =>
        [i \in DOMAIN merged |-> merged[i].v] =
            FirstOccurrences(Flatten([i \in DOMAIN tables |-> tables[i].rows]),
                             <<>>)

====
